---- MODULE Spec2Model ----
(***************************************************************************)
(* Model of the CM11A controller (src/src/CM11A.js): the transaction       *)
(* engine that owns the serial channel, the single current transaction,    *)
(* the pending queue, the response timer and the three event callbacks.    *)
(* The transactions themselves (CM11ATransactions.js) and the code table   *)
(* (CM11ACodes.js) are not part of the sources at hand; they are modelled  *)
(* from the written specification (sections 4.2 and 6).                    *)
(*                                                                         *)
(* JavaScript runs every handler to completion, and the callbacks chained  *)
(* on a promise run as a microtask right after the handler that settled    *)
(* it: pendingThen holds the settled-but-not-yet-chained outcome, and no   *)
(* other handler runs while it is set.                                     *)
(***************************************************************************)
EXTENDS Integers, Sequences, FiniteSets, TLC

\* ------------------------------------------------------------------ bounds
\* Number of transaction objects ever created.
MaxTrans == 3
\* Number of SerialPort objects ever opened by start().
MaxPorts == 2
\* Longest inbound chunk delivered by one data event.
MaxChunk == 1

\* --------------------------------------------------------------- constants
\* cm11aCodes.rx: the three poll markers of the device.
POLL_REQUEST == 90
POLL_POWER_FAIL == 165
POLL_EEPROM_ADDRESS == 91
\* Retries of a frame before the transaction fails.
RETRY_LIMIT == 1

\* `undefined` in the currentTrans slot.
NoTrans == 0
\* `undefined` in the timer slot; a live handle is <<transaction, step, retry>>.
NoTimer == <<>>
\* `undefined` in an event slot.
NoCallback == "undefined"
\* The `{}` placeholder held by serial before the first start().
NoPort == 0

PollMarkers == {POLL_REQUEST, POLL_POWER_FAIL, POLL_EEPROM_ADDRESS}
\* The bytes a chunk may lead with: the markers and one byte that is none.
Bytes == PollMarkers \cup {85}
\* Inbound chunks: empty, or a leading byte followed by payload bytes (read()
\* looks at the length and the leading byte only; what the payload means to
\* the current transaction is one of Outcomes).
ChunksOf(B) ==
    {<<>>} \cup {<<b>> \o [i \in 1..n |-> 0] : b \in B, n \in 0..(MaxChunk - 1)}
EventNames == {"unitStatus", "status", "close"}
Callbacks == {"f1", "f2"}
Kinds == {"Command", "StatusRequest", "PollResponse", "SetClock", "EepromAddress"}
TransIds == 1..MaxTrans
PortIds == 1..MaxPorts
Outcomes == {"decline", "ack", "badChecksum", "malformed"}

Range(q) == {q[i] : i \in 1..Len(q)}

VARIABLES
    running,            \* CM11A.running
    currentTrans,       \* CM11A.currentTrans (NoTrans = undefined)
    transactionQueue,   \* CM11A.transactionQueue
    timer,              \* CM11A.timer: the handle last stored by write()
    events,             \* CM11A.events: one callback slot per event name
    serial,             \* CM11A.serial: the port last opened (NoPort = {})
    ports,              \* state of every SerialPort: unopened/open/closing/closed
    liveTimers,         \* setTimeout handles armed, not fired, not cleared
    kind,               \* kind of every transaction object alive ("none": not yet
                        \* created, "gone": settled or dropped)
    step,               \* progress of the current transaction
    retries,            \* retries of the current frame
    pendingThen,        \* outcome of the settled run() promise awaiting its callback
    accepted,           \* history: transactions taken by runTransaction while running
    runOrder,           \* history: transactions in the order run() was invoked
    resolved,           \* history: transactions whose run() promise settled
    dropped,            \* history: transactions passed to runTransaction while not running
    stopQueued,         \* history: transactions that were queued when stop() was called
                        \* (recorded by DoStopTracked only)
    fx,                 \* what the last handler did (calls it made)
    peer,               \* own fields of a second controller made by the factory
                        \* (what it does not own it reads from the prototype)
    submittedTo,        \* history: controller each transaction was submitted to
    startedBy           \* history: controller that invoked run() on each transaction

vars == <<running, currentTrans, transactionQueue, timer, events, serial, ports,
          liveTimers, kind, step, retries, pendingThen, accepted, runOrder,
          resolved, dropped, stopQueued, fx, peer, submittedTo, startedBy>>

\* The calls one handler makes that leave no other trace in the state; reset
\* at the start of every handler.
NoFx ==
    [hm |-> "none",       \* handleMessage called: "none", "bytes" or "empty"
     used |-> FALSE,      \* what handleMessage returned to read()
     spawned |-> <<>>,    \* kinds created and passed to runTransaction by read()
     closeOn |-> "none",  \* serial.close() invoked: state of the port it was invoked on
     called |-> <<>>,     \* host callbacks invoked, as <<event, callback>>
     read |-> <<>>,       \* <<chunk>> when the handler was read(chunk), as
                          \* recorded by DoReadTracked only
     threw |-> "none",    \* exception raised to the caller
     settled |-> "none",  \* the handler was the then-callback of this outcome
     on |-> <<>>,         \* <<event, callBack>> when the handler was on(event,
                          \* callBack), as recorded by DoSetEventTracked only
     ret |-> <<>>]        \* <<value>> returned by start()

\* The fields a controller gets as its own by assignment (this.x = ...), with
\* the values they have on the prototype until then: running, currentTrans,
\* serial, timer; with them, the progress of its current transaction and the
\* outcome of that transaction's promise.
Own ==
    [running |-> FALSE, currentTrans |-> NoTrans, serial |-> NoPort,
     timer |-> NoTimer, step |-> 0, retries |-> 0, pendingThen |-> "none"]

St == [running |-> running, currentTrans |-> currentTrans,
       transactionQueue |-> transactionQueue, timer |-> timer, events |-> events,
       serial |-> serial, ports |-> ports, liveTimers |-> liveTimers, kind |-> kind,
       step |-> step, retries |-> retries, pendingThen |-> pendingThen,
       accepted |-> accepted, runOrder |-> runOrder, resolved |-> resolved,
       dropped |-> dropped, stopQueued |-> stopQueued, fx |-> fx,
       peer |-> peer, submittedTo |-> submittedTo, startedBy |-> startedBy]

Begin == [St EXCEPT !.fx = NoFx]

Commit(s) ==
    /\ running' = s.running
    /\ currentTrans' = s.currentTrans
    /\ transactionQueue' = s.transactionQueue
    /\ timer' = s.timer
    /\ events' = s.events
    /\ serial' = s.serial
    /\ ports' = s.ports
    /\ liveTimers' = s.liveTimers
    /\ kind' = s.kind
    /\ step' = s.step
    /\ retries' = s.retries
    /\ pendingThen' = s.pendingThen
    /\ accepted' = s.accepted
    /\ runOrder' = s.runOrder
    /\ resolved' = s.resolved
    /\ dropped' = s.dropped
    /\ stopQueued' = s.stopQueued
    /\ fx' = s.fx
    /\ peer' = s.peer
    /\ submittedTo' = s.submittedTo
    /\ startedBy' = s.startedBy

Init ==
    /\ running = FALSE
    /\ currentTrans = NoTrans
    /\ transactionQueue = <<>>
    /\ timer = NoTimer
    /\ events = [e \in EventNames |-> NoCallback]
    /\ serial = NoPort
    /\ ports = [p \in PortIds |-> "unopened"]
    /\ liveTimers = {}
    /\ kind = [t \in TransIds |-> "none"]
    /\ step = 0
    /\ retries = 0
    /\ pendingThen = "none"
    /\ accepted = <<>>
    /\ runOrder = <<>>
    /\ resolved = {}
    /\ dropped = {}
    /\ stopQueued = {}
    /\ fx = NoFx
    /\ peer = Own
    /\ submittedTo = [t \in TransIds |-> 0]
    /\ startedBy = [t \in TransIds |-> 0]

\* ------------------------------------------------------- timer and channel
\* CancelTimer() that forgets the stored handle without clearTimeout.
CancelTimerForgetsOnly(s) == [s EXCEPT !.timer = NoTimer]

\* CancelTimer(): clearTimeout on the stored handle, then forget it.
CancelTimer(s) ==
    IF s.timer # NoTimer
    THEN [s EXCEPT !.liveTimers = @ \ {s.timer}, !.timer = NoTimer]
    ELSE s

\* SerialWrite(data, timer): write to the port; with a delay given (delay is
\* TRUE when the timer argument is not undefined), arm a
\* timeout and store its handle (the handle stored before is overwritten).
SerialWrite(s, delay) ==
    LET h == <<s.currentTrans, s.step, s.retries>>
    IN  IF delay
        THEN [s EXCEPT !.timer = h, !.liveTimers = @ \cup {h}]
        ELSE s

\* this.serial.close(): an open port starts closing and will signal 'close';
\* on a port that is closing or closed the call only reports an error; the
\* placeholder object has no close method.
SerialClose(s) ==
    LET st == IF s.serial = NoPort THEN "placeholder" ELSE s.ports[s.serial]
    IN  [s EXCEPT !.fx.closeOn = st,
                  !.fx.threw = IF st = "placeholder" THEN "TypeError" ELSE @,
                  !.ports = IF st = "open"
                            THEN [@ EXCEPT ![s.serial] = "closing"]
                            ELSE @]

\* ------------------------------------------------------------ notifications
NotifyUnitStatus(s) ==
    IF s.events["unitStatus"] # NoCallback
    THEN [s EXCEPT !.fx.called = Append(@, <<"unitStatus", s.events["unitStatus"]>>)]
    ELSE s

NotifyStatus(s) ==
    IF s.events["status"] # NoCallback
    THEN [s EXCEPT !.fx.called = Append(@, <<"status", s.events["status"]>>)]
    ELSE s

\* ------------------------------------------- transactions (specification 4.2)
\* Frames an exchange of each kind needs before it completes.
Steps(k) == IF k \in {"Command", "PollResponse"} THEN 2 ELSE 1

\* Writing a frame cancels the timer armed before, then writes.
TransWrite(s, delay) == SerialWrite(CancelTimer(s), delay)

\* An exchange that reaches its outcome and leaves its timer armed.
SettleKeepsTimer(s, how) ==
    [s EXCEPT !.pendingThen = how,
              !.resolved = @ \cup {s.currentTrans},
              !.kind[s.currentTrans] = "gone",
              !.step = 0, !.retries = 0]

\* The exchange reached its outcome: the timer is cancelled and the run()
\* promise settles; its callbacks run after the current handler.
Settle(s, how) ==
    [CancelTimer(s) EXCEPT !.pendingThen = how,
                           !.resolved = @ \cup {s.currentTrans},
                           !.kind[s.currentTrans] = "gone",
                           !.step = 0, !.retries = 0]

\* run(): write the first frame and arm the response timeout.
TransRun(s) ==
    TransWrite([s EXCEPT !.step = 1, !.retries = 0,
                         !.runOrder = Append(@, s.currentTrans)], TRUE)

\* No usable reply: send the frame again, or fail once the retries are spent.
Retry(s) ==
    IF s.retries < RETRY_LIMIT
    THEN TransWrite([s EXCEPT !.retries = @ + 1], TRUE)
    ELSE Settle(s, "rejected")

\* The frame was acknowledged: send the next one, or complete. A status
\* request reports the decoded status, a poll response acknowledges the
\* payload (no reply expected) and reports the decoded unit events.
Advance(s) ==
    LET k == s.kind[s.currentTrans]
    IN  IF s.step < Steps(k)
        THEN TransWrite([s EXCEPT !.step = @ + 1, !.retries = 0], TRUE)
        ELSE IF k = "StatusRequest" THEN Settle(NotifyStatus(s), "fulfilled")
        ELSE IF k = "PollResponse"
             THEN Settle(NotifyUnitStatus(TransWrite(s, FALSE)), "fulfilled")
        ELSE Settle(s, "fulfilled")

\* handleMessage(bytes): the empty sequence is the timeout; otherwise the
\* transaction reads the bytes as one of Outcomes. Gives the state and
\* whether the bytes were consumed.
HandleMessage(s, data, outcome) ==
    LET m == [s EXCEPT !.fx.hm = IF Len(data) = 0 THEN "empty" ELSE "bytes"]
    IN  IF Len(data) = 0 THEN [st |-> Retry(m), used |-> TRUE]
        ELSE IF outcome = "decline" THEN [st |-> m, used |-> FALSE]
        ELSE IF outcome = "ack" THEN [st |-> Advance(m), used |-> TRUE]
        ELSE IF outcome = "badChecksum" THEN [st |-> Retry(m), used |-> TRUE]
        ELSE [st |-> Settle(m, "rejected"), used |-> TRUE]

\* A transaction factory of CM11ATransactions: a fresh object of kind k.
NextId(s) == CHOOSE t \in 1..(MaxTrans + 1) :
                /\ t \in TransIds => s.kind[t] = "none"
                /\ \A u \in 1..(t - 1) : s.kind[u] # "none"
CanCreate(s) == NextId(s) \in TransIds
NewTrans(s, k) == [s EXCEPT !.kind[NextId(s)] = k]

\* ------------------------------------------------------------------ engine
\* RunTransaction without the test of the current slot: every transaction
\* accepted is started at once.
RunTransactionNoSlotTest(s, trans) ==
    IF s.running
    THEN TransRun([s EXCEPT !.accepted = IF trans \in Range(@) THEN @
                                         ELSE Append(@, trans),
                            !.currentTrans = trans])
    ELSE [s EXCEPT !.dropped = @ \cup {trans}, !.kind[trans] = "gone"]

\* RunTransaction that queues what is submitted while the engine is not
\* running.
RunTransactionQueuesWhenStopped(s, trans) ==
    IF s.running
    THEN LET a == [s EXCEPT !.accepted = IF trans \in Range(@) THEN @
                                         ELSE Append(@, trans)]
         IN  IF a.currentTrans = NoTrans
             THEN TransRun([a EXCEPT !.currentTrans = trans])
             ELSE [a EXCEPT !.transactionQueue = Append(@, trans)]
    ELSE [s EXCEPT !.dropped = @ \cup {trans},
                   !.transactionQueue = Append(@, trans)]

\* RunTransaction(trans)
RunTransaction(s, trans) ==
    IF s.running
    THEN LET a == [s EXCEPT !.accepted = IF trans \in Range(@) THEN @
                                         ELSE Append(@, trans)]
         IN  IF a.currentTrans = NoTrans
             THEN TransRun([a EXCEPT !.currentTrans = trans])
             ELSE [a EXCEPT !.transactionQueue = Append(@, trans)]
    ELSE [s EXCEPT !.dropped = @ \cup {trans}, !.kind[trans] = "gone"]

\* RunQueuedTransaction()
RunQueuedTransaction(s) ==
    LET c == [s EXCEPT !.currentTrans = NoTrans]
    IN  IF c.running
        THEN IF Len(c.transactionQueue) > 0
             THEN RunTransaction([c EXCEPT !.transactionQueue = Tail(@)],
                                 Head(c.transactionQueue))
             ELSE c
        ELSE SerialClose(c)

\* SetEvent that stores whatever it is given under a known event name.
SetEventAnyCallback(s, event, callBack) ==
    IF event \notin DOMAIN s.events
    THEN [s EXCEPT !.fx.threw = "Invalid event"]
    ELSE [s EXCEPT !.events[event] = callBack]

\* SetEvent(event, callBack); callBack is a function exactly when it is in
\* Callbacks.
SetEvent(s, event, callBack) ==
    IF event \notin DOMAIN s.events
    THEN [s EXCEPT !.fx.threw = "Invalid event"]
    ELSE IF callBack \notin Callbacks
    THEN [s EXCEPT !.fx.threw = "Expected function"]
    ELSE [s EXCEPT !.events[event] = callBack]

\* Start(device): a new SerialPort with the data, error and close handlers.
NextPort(s) == CHOOSE p \in 1..(MaxPorts + 1) :
                  /\ p \in PortIds => s.ports[p] = "unopened"
                  /\ \A q \in 1..(p - 1) : s.ports[q] # "unopened"
\* Start() without the test of running: it opens a port every time.
StartAlwaysOpens(s) ==
    [s EXCEPT !.serial = NextPort(s),
              !.ports[NextPort(s)] = "open",
              !.running = TRUE,
              !.fx.ret = <<TRUE>>]

Start(s) ==
    LET o == IF ~s.running
             THEN [s EXCEPT !.serial = NextPort(s),
                            !.ports[NextPort(s)] = "open",
                            !.running = TRUE]
             ELSE s
    IN  [o EXCEPT !.fx.ret = <<o.running>>]

\* Stop() that does not wait for the transaction in flight: it closes the
\* channel at once.
StopClosesAtOnce(s) == SerialClose([s EXCEPT !.running = FALSE])

\* Stop()
Stop(s) ==
    IF s.currentTrans # NoTrans
    THEN [s EXCEPT !.running = FALSE]
    ELSE SerialClose(s)

\* Stopped() that only notifies and leaves running as it is.
StoppedKeepsRunning(s) ==
    IF s.events["close"] # NoCallback
    THEN [s EXCEPT !.fx.called = Append(@, <<"close", s.events["close"]>>)]
    ELSE s

\* Stopped(): the 'close' handler of a port.
Stopped(s) ==
    LET r == [s EXCEPT !.running = FALSE]
    IN  IF r.events["close"] # NoCallback
        THEN [r EXCEPT !.fx.called = Append(@, <<"close", r.events["close"]>>)]
        ELSE r

\* TurnOn/TurnOff/Dim/Bright build a Command, Status a StatusRequest, and
\* hand it to runTransaction.
Submit(s, k) == RunTransaction(NewTrans(s, k), NextId(s))

\* SerialRead that classifies the leading byte whatever the current
\* transaction answered.
SerialReadIgnoresUsed(s, data, outcome) ==
    IF Len(data) > 0
    THEN LET h == IF s.currentTrans # NoTrans
                  THEN HandleMessage(s, data, outcome)
                  ELSE [st |-> s, used |-> FALSE]
             u == [h.st EXCEPT !.fx.used = h.used]
             Spawn(k) == RunTransaction(
                             NewTrans([u EXCEPT !.fx.spawned = Append(@, k)], k),
                             NextId(u))
         IN  IF data[1] = POLL_REQUEST THEN Spawn("PollResponse")
             ELSE IF data[1] = POLL_POWER_FAIL THEN Spawn("SetClock")
             ELSE IF data[1] = POLL_EEPROM_ADDRESS THEN Spawn("EepromAddress")
             ELSE u
    ELSE s

\* SerialRead(data)
SerialRead(s, data, outcome) ==
    IF Len(data) > 0
    THEN LET h == IF s.currentTrans # NoTrans
                  THEN HandleMessage(s, data, outcome)
                  ELSE [st |-> s, used |-> FALSE]
             u == [h.st EXCEPT !.fx.used = h.used]
             Spawn(k) == RunTransaction(
                             NewTrans([u EXCEPT !.fx.spawned = Append(@, k)], k),
                             NextId(u))
         IN  IF ~h.used
             THEN IF data[1] = POLL_REQUEST THEN Spawn("PollResponse")
                  ELSE IF data[1] = POLL_POWER_FAIL THEN Spawn("SetClock")
                  ELSE IF data[1] = POLL_EEPROM_ADDRESS THEN Spawn("EepromAddress")
                  ELSE u
             ELSE u
    ELSE s

\* Timeout(): the armed timer expired.
Timeout(s) ==
    IF s.currentTrans # NoTrans
    THEN HandleMessage(s, <<>>, "decline").st
    ELSE s

\* ------------------------------------------------------- two controllers
\* NewCm11A() is Object.create(CM11A): a controller owns a field once it has
\* assigned it; transactionQueue and events are never assigned (push and
\* events[event] = ... change the prototype's objects), so both controllers
\* use the same queue and the same slots.
Swap(s) ==
    [s EXCEPT !.running = s.peer.running,
              !.currentTrans = s.peer.currentTrans,
              !.serial = s.peer.serial,
              !.timer = s.peer.timer,
              !.step = s.peer.step,
              !.retries = s.peer.retries,
              !.pendingThen = s.peer.pendingThen,
              !.peer = [running |-> s.running, currentTrans |-> s.currentTrans,
                        serial |-> s.serial, timer |-> s.timer, step |-> s.step,
                        retries |-> s.retries, pendingThen |-> s.pendingThen]]

\* A method called on controller c runs with c's own fields as `this`
\* (1: the first controller, 2: the second).
AsThis(c, s) == IF c = 1 THEN s ELSE Swap(s)

\* Records which controller the handler's new transactions were submitted to
\* and which controller invoked run() in it.
Track(c, s0, s1) ==
    [s1 EXCEPT
        !.submittedTo = [t \in TransIds |->
                            IF s0.kind[t] = "none" /\ s1.kind[t] # "none"
                            THEN c ELSE @[t]],
        !.startedBy = [t \in TransIds |->
                            IF t \in Range(s1.runOrder) \ Range(s0.runOrder)
                            THEN c ELSE @[t]]]

\* ----------------------------------------------------------------- actions
Idle == pendingThen = "none"

\* on(event, callBack), the host drawing its arguments from E and C.
DoSetEvent(E, C) ==
    /\ Idle
    /\ \E event \in E, callBack \in C :
          Commit(SetEvent(Begin, event, callBack))

\* on(event, callBack), remembering the arguments.
DoSetEventTracked(E, C) ==
    /\ Idle
    /\ \E event \in E, callBack \in C :
          Commit([SetEvent(Begin, event, callBack) EXCEPT
                      !.fx.on = <<event, callBack>>])

DoStart ==
    /\ Idle
    /\ running \/ NextPort(St) \in PortIds
    /\ Commit(Start(Begin))

DoStop ==
    /\ Idle
    /\ Commit(Stop(Begin))

\* stop(), remembering which transactions were waiting in the queue.
DoStopTracked ==
    /\ Idle
    /\ Commit([Stop(Begin) EXCEPT !.stopQueued = @ \cup Range(transactionQueue)])

\* The 'close' signal of a port: after close() was asked for, or on its own
\* (the device went away).
DoStopped ==
    /\ Idle
    /\ \E p \in PortIds :
          /\ ports[p] \in {"open", "closing"}
          /\ Commit(Stopped([Begin EXCEPT !.ports[p] = "closed"]))

DoTurnOn == Idle /\ CanCreate(St) /\ Commit(Submit(Begin, "Command"))
DoTurnOff == Idle /\ CanCreate(St) /\ Commit(Submit(Begin, "Command"))
DoDim == Idle /\ CanCreate(St) /\ Commit(Submit(Begin, "Command"))
DoBright == Idle /\ CanCreate(St) /\ Commit(Submit(Begin, "Command"))
DoStatus == Idle /\ CanCreate(St) /\ Commit(Submit(Begin, "StatusRequest"))

\* One data event delivering `data`, which the current transaction reads as
\* `outcome`.
ReadStep(data, outcome) ==
    /\ Idle
    /\ (Len(data) > 0 /\ data[1] \in PollMarkers) => CanCreate(St)
    /\ Commit(SerialRead(Begin, data, outcome))

\* A data event of a port that has not signalled close, leading with a byte
\* of B.
DoRead(B) ==
    /\ \E p \in PortIds : ports[p] \in {"open", "closing"}
    /\ \E data \in ChunksOf(B), outcome \in Outcomes :
          /\ (Len(data) = 0 \/ currentTrans = NoTrans) => outcome = "decline"
          /\ ReadStep(data, outcome)

\* A data event, remembering the chunk it delivered.
DoReadTracked(B) ==
    /\ Idle
    /\ \E p \in PortIds : ports[p] \in {"open", "closing"}
    /\ \E data \in ChunksOf(B), outcome \in Outcomes :
          /\ (Len(data) = 0 \/ currentTrans = NoTrans) => outcome = "decline"
          /\ (Len(data) > 0 /\ data[1] \in PollMarkers) => CanCreate(St)
          /\ Commit([SerialRead(Begin, data, outcome) EXCEPT !.fx.read = <<data>>])

\* An armed timer expires.
DoTimeout ==
    /\ Idle
    /\ \E h \in liveTimers :
          Commit(Timeout([Begin EXCEPT !.liveTimers = @ \ {h}]))

\* The two callbacks chained on run(): both call runQueuedTransaction.
OnFulfilled ==
    /\ pendingThen = "fulfilled"
    /\ Commit(RunQueuedTransaction([Begin EXCEPT !.pendingThen = "none",
                                                 !.fx.settled = "fulfilled"]))

\* The rejection callback that does not go on to runQueuedTransaction.
OnRejectedKeepsSlot ==
    /\ pendingThen = "rejected"
    /\ Commit([Begin EXCEPT !.pendingThen = "none", !.fx.settled = "rejected"])

OnRejected ==
    /\ pendingThen = "rejected"
    /\ Commit(RunQueuedTransaction([Begin EXCEPT !.pendingThen = "none",
                                                 !.fx.settled = "rejected"]))

\* Neither controller has a promise callback waiting.
BothIdle == pendingThen = "none" /\ peer.pendingThen = "none"

\* The port controller c holds.
SerialOf(c) == IF c = 1 THEN serial ELSE peer.serial

TwoSetEvent ==
    /\ BothIdle
    /\ \E c \in {1, 2} :
          Commit(Track(c, Begin,
                       AsThis(c, SetEvent(AsThis(c, Begin), "close",
                                          IF c = 1 THEN "f1" ELSE "f2"))))

TwoStart ==
    /\ BothIdle
    /\ NextPort(St) \in PortIds
    /\ \E c \in {1, 2} : Commit(Track(c, Begin, AsThis(c, Start(AsThis(c, Begin)))))

TwoTurnOn ==
    /\ BothIdle
    /\ CanCreate(St)
    /\ \E c \in {1, 2} :
          Commit(Track(c, Begin, AsThis(c, Submit(AsThis(c, Begin), "Command"))))

\* The device on controller c's port replies.
TwoRead ==
    /\ BothIdle
    /\ \E c \in {1, 2} :
          /\ SerialOf(c) # NoPort
          /\ ports[SerialOf(c)] \in {"open", "closing"}
          /\ \E outcome \in Outcomes :
                Commit(Track(c, Begin,
                             AsThis(c, SerialRead(AsThis(c, Begin), <<85>>, outcome))))

\* The then-callback of the promise of controller c's transaction.
TwoSettled ==
    \E c \in {1, 2} :
        /\ (IF c = 1 THEN pendingThen ELSE peer.pendingThen) # "none"
        /\ Commit(Track(c, Begin,
                        AsThis(c, RunQueuedTransaction(
                                      [AsThis(c, Begin) EXCEPT !.pendingThen = "none"]))))

\* Transactions enter through the unit commands and the device's poll
\* requests; they advance on inbound bytes and timer expiries.
Traffic ==
    \/ DoTurnOn
    \/ DoTurnOff
    \/ DoDim
    \/ DoBright
    \/ DoRead({POLL_REQUEST, 85})
    \/ DoTimeout
    \/ OnFulfilled
    \/ OnRejected

Next ==
    \/ DoStart
    \/ DoStop
    \/ DoStopped
    \/ Traffic

\* The host starts and stops the controller and issues unit commands; the
\* device sends poll requests and other bytes, and may go away.
Spec == Init /\ [][Next]_vars

NextStop ==
    \/ DoStart
    \/ DoStopTracked
    \/ DoStopped
    \/ Traffic

\* As Spec, remembering at every stop() what was queued.
SpecStop == Init /\ [][NextStop]_vars

NextClose ==
    \/ DoSetEvent({"close"}, {"f1"})
    \/ DoStart
    \/ DoStop
    \/ DoStopped
    \/ DoTurnOn
    \/ DoRead({85})
    \/ DoTimeout
    \/ OnFulfilled
    \/ OnRejected

NextRead ==
    \/ DoStart
    \/ DoStop
    \/ DoReadTracked(Bytes)
    \/ DoTimeout
    \/ OnFulfilled
    \/ OnRejected

\* The device sends chunks leading with any of the three poll markers or
\* with another byte; the host only starts and stops the controller.
SpecRead == Init /\ [][NextRead]_vars

NextDrain ==
    \/ DoStart
    \/ DoStop
    \/ DoTurnOn
    \/ DoReadTracked({85})
    \/ DoTimeout
    \/ OnFulfilled
    \/ OnRejected

\* The host starts and stops the controller and issues turnOn commands; the
\* device answers them, every chunk it sends being remembered.
SpecDrain == Init /\ [][NextDrain]_vars

\* As SpecDrain, with the scheduling the runtime gives: an armed timer that is
\* not cancelled fires, and the callbacks of a settled promise are run.
SpecLive ==
    /\ Init
    /\ [][NextDrain]_vars
    /\ WF_vars(DoTimeout)
    /\ WF_vars(OnFulfilled)
    /\ WF_vars(OnRejected)

NextEvents ==
    \/ DoSetEventTracked(EventNames \cup {"bogus"}, {"f1", "notAFunction"})
    \/ DoSetEventTracked({"status"}, {"f2"})
    \/ DoStart
    \/ DoStopped
    \/ DoStatus
    \/ DoRead({POLL_REQUEST})
    \/ OnFulfilled
    \/ OnRejected

\* The host registers callbacks, with known and unknown event names and with
\* a function and a non-function, and a second function for the status event;
\* it starts the controller and asks for the status; the device answers, sends
\* poll requests and may go away.
SpecEvents == Init /\ [][NextEvents]_vars

NextTwo ==
    \/ TwoSetEvent
    \/ TwoStart
    \/ TwoTurnOn
    \/ TwoRead
    \/ TwoSettled

\* Two controllers from two calls of the factory, each started on its own
\* port, each given turnOn commands and a close callback; each device answers
\* before the response timer expires.
SpecTwo == Init /\ [][NextTwo]_vars

\* The host also registers a callback for the close event; the only traffic
\* is turnOn commands and the device's replies to them.
SpecClose == Init /\ [][NextClose]_vars

\* ------------------------------------------------------------------ claims
\* Transactions whose run() was invoked and whose promise has not settled.
InFlight == Range(runOrder) \ resolved

\* C1: at most one transaction has had run() invoked and has not yet
\* resolved, and that transaction is the one in the current slot (run() is
\* invoked only on the transaction runTransaction has just made current).
C1_SingleInFlight ==
    /\ Cardinality(InFlight) <= 1
    /\ InFlight \subseteq {currentTrans}
    /\ \A i, j \in 1..Len(runOrder) : runOrder[i] = runOrder[j] => i = j

\* C1 witness: one transaction is in flight while two others wait in the
\* queue.
C1_Witness ==
    /\ InFlight = {currentTrans}
    /\ Len(transactionQueue) = 2
    /\ currentTrans \notin Range(transactionQueue)

\* Position of an accepted transaction in the order of acceptance.
AcceptIndex(t) == CHOOSE i \in 1..Len(accepted) : accepted[i] = t

\* C2: transactions have run() invoked in the order in which runTransaction
\* accepted them.
C2_FifoExecution ==
    \A i, j \in 1..Len(runOrder) :
        i < j => AcceptIndex(runOrder[i]) < AcceptIndex(runOrder[j])

\* The engine is not running while a transaction is still in the current slot.
Draining == ~running /\ currentTrans # NoTrans

\* C3: stop() with a transaction in flight leaves that transaction current
\* and untouched and does not close the channel; while the engine stays
\* not-running no transaction has run() invoked; the draining transaction
\* still gets inbound bytes and timer expiries; and serial.close() is invoked
\* in exactly the step in which the in-flight transaction's resolution is
\* handled.
C3_GracefulStop ==
    [][ /\ (DoStop /\ currentTrans # NoTrans) =>
              /\ currentTrans' = currentTrans
              /\ ~running'
              /\ fx'.closeOn = "none"
              /\ ports' = ports
              /\ UNCHANGED <<liveTimers, timer, step, retries, pendingThen,
                             resolved, runOrder, transactionQueue>>
        /\ (~running /\ ~running') => runOrder' = runOrder
        /\ Draining => ((fx'.closeOn # "none") <=> (pendingThen # "none"))
        /\ (Draining /\ pendingThen # "none") =>
              (currentTrans' = NoTrans /\ fx'.closeOn = ports[serial])
        /\ (Draining /\ DoTimeout) =>
              (fx'.hm = "empty" /\ (retries' = retries + 1 \/ pendingThen' = "rejected"))
        /\ (Draining /\ fx'.read # <<>> /\ fx'.read[1] # <<>>) =>
              fx'.hm = "bytes"
      ]_vars

\* C3 witness: after one start() and a stop() with a transaction in flight,
\* that transaction has resolved, close() was invoked on the open port, and
\* the transaction that was queued behind it has not been started.
C3_Witness ==
    /\ ~running
    /\ currentTrans = NoTrans
    /\ fx.closeOn = "open"
    /\ transactionQueue # <<>>
    /\ Len(runOrder) = 1
    /\ resolved = Range(runOrder)
    /\ ports[2] = "unopened"

\* C4: a transaction that was in the pending queue when stop() was called
\* never has run() invoked afterwards.
C4_QueuedDiscardedOnStop == stopQueued \cap Range(runOrder) = {}

\* A port signals 'close' in this step.
CloseSignal == \E p \in PortIds : ports[p] # "closed" /\ ports'[p] = "closed"

\* The close callbacks invoked by the last handler.
CloseCalls(f) == {i \in 1..Len(f.called) : f.called[i][1] = "close"}

\* C5: stop() on a started engine with no transaction in flight asks the
\* open port to close at once; every close signal of a port leaves running
\* false and invokes the registered close callback exactly once (and none
\* when no callback is registered); no other step invokes it.
C5_ClosedNotification ==
    [][ /\ (DoStop /\ running /\ currentTrans = NoTrans /\ ports[serial] = "open") =>
              (ports'[serial] = "closing" /\ fx'.closeOn = "open")
        /\ CloseSignal =>
              /\ ~running'
              /\ fx'.called = IF events["close"] # NoCallback
                              THEN << <<"close", events["close"]>> >>
                              ELSE <<>>
        /\ ~CloseSignal => CloseCalls(fx') = {}
      ]_vars

\* C5 witness: a callback was registered, the engine was started and, with no
\* transaction ever started, its port went through closing to closed; the
\* callback has just been invoked once and the engine is not running.
C5_Witness ==
    /\ fx.called = << <<"close", "f1">> >>
    /\ ~running
    /\ currentTrans = NoTrans
    /\ runOrder = <<>>
    /\ ports[1] = "closed"

\* Transaction objects created in this step.
Created == {t \in TransIds : kind[t] = "none" /\ kind'[t] # "none"}

\* C6: read() of an empty chunk calls no handleMessage and spawns nothing;
\* a non-empty chunk is offered to the current transaction, if any, and when
\* it is consumed nothing is spawned; otherwise exactly one PollResponse,
\* SetClock or EepromAddress is created and passed to runTransaction for
\* the poll-request, power-fail or eeprom-address marker, and for any other
\* leading byte nothing is spawned and the engine state is unchanged.
C6_InboundRouting ==
    [][ fx'.read # <<>> =>
          LET data == fx'.read[1]
              offered == Len(data) > 0 /\ currentTrans # NoTrans
          IN  /\ fx'.hm = IF offered THEN "bytes" ELSE "none"
              /\ fx'.used => offered
              /\ fx'.spawned =
                    IF Len(data) = 0 \/ fx'.used THEN <<>>
                    ELSE IF data[1] = POLL_REQUEST THEN <<"PollResponse">>
                    ELSE IF data[1] = POLL_POWER_FAIL THEN <<"SetClock">>
                    ELSE IF data[1] = POLL_EEPROM_ADDRESS THEN <<"EepromAddress">>
                    ELSE <<>>
              /\ Cardinality(Created) = Len(fx'.spawned)
              /\ \A t \in Created :
                    \/ kind'[t] = fx'.spawned[1]
                    \/ (~running /\ kind'[t] = "gone")
              /\ (Len(data) = 0 \/ (~fx'.used /\ data[1] \notin PollMarkers)) =>
                    UNCHANGED <<running, currentTrans, transactionQueue, timer,
                                liveTimers, events, serial, ports, kind, step,
                                retries, pendingThen, runOrder, accepted, dropped>>
      ]_vars

\* C6 witness: the current transaction declined a chunk leading with the
\* eeprom-address marker, and the EepromAddress transaction read() created
\* for it is waiting in the queue.
C6_Witness ==
    /\ fx.read = << <<POLL_EEPROM_ADDRESS>> >>
    /\ fx.hm = "bytes"
    /\ ~fx.used
    /\ fx.spawned = <<"EepromAddress">>
    /\ currentTrans # NoTrans
    /\ transactionQueue # <<>>
    /\ kind[transactionQueue[Len(transactionQueue)]] = "EepromAddress"

\* C7: a step in which runTransaction is called while the engine is not
\* running (from a unit command or from the classification of an inbound
\* poll) leaves running, currentTrans, the queue, the timer and the channel
\* unchanged and raises no error; and the transaction so submitted is never
\* current, never queued and never has run() invoked, whatever happens later.
C7_NoOpWhenNotRunning ==
    [][ /\ dropped' # dropped =>
              /\ ~running
              /\ UNCHANGED <<running, currentTrans, transactionQueue, timer,
                             liveTimers, serial, ports, step, retries, runOrder>>
              /\ fx'.threw = "none"
        /\ dropped' \cap (Range(runOrder') \cup Range(transactionQueue')
                              \cup {currentTrans'}) = {}
      ]_vars

\* C7 witness: a transaction was submitted while the engine was not running,
\* and the engine, running now, has since started one created later.
C7_Witness ==
    /\ running
    /\ \E d \in dropped : currentTrans > d /\ currentTrans \in Range(runOrder)

\* C8: the callback that handles a settled run() promise does the same for a
\* rejection as for a fulfilment: running is unchanged, the slot is cleared
\* and, exactly when the engine is running with a non-empty queue, the head
\* of the queue is dequeued, made current and has run() invoked; the step in
\* which a transaction fails leaves running as it was, and the failed
\* transaction is not current afterwards.
C8_FailureDoesNotStop ==
    [][ /\ pendingThen # "none" =>
              /\ pendingThen' = "none"
              /\ fx'.settled = pendingThen
              /\ running' = running
              /\ currentTrans' # currentTrans
              /\ IF running /\ transactionQueue # <<>>
                 THEN /\ currentTrans' = Head(transactionQueue)
                      /\ transactionQueue' = Tail(transactionQueue)
                      /\ runOrder' = Append(runOrder, Head(transactionQueue))
                 ELSE /\ currentTrans' = NoTrans
                      /\ UNCHANGED <<transactionQueue, runOrder>>
        /\ (pendingThen = "none" /\ pendingThen' = "rejected") =>
              running' = running
      ]_vars

\* C8 witness: the rejection of a transaction has just been handled while the
\* engine was running, and the transaction queued behind it is now in flight.
C8_Witness ==
    /\ fx.settled = "rejected"
    /\ running
    /\ currentTrans # NoTrans
    /\ currentTrans \notin resolved
    /\ Len(runOrder) >= 2

C10_NoStaleTimeout ==
    [][ /\ \A h \in liveTimers' :
              /\ h = <<currentTrans', step', retries'>>
              /\ currentTrans' \notin resolved'
        /\ fx'.hm = "empty" =>
              /\ timer = <<currentTrans, step, retries>>
              /\ timer \in liveTimers
              /\ timer \notin liveTimers' \/ timer' # timer
              /\ currentTrans \notin resolved
      ]_vars

\* C10 witness: a timeout has just been delivered to the current transaction,
\* which sent its frame again, after an earlier transaction had resolved.
C10_Witness ==
    /\ fx.hm = "empty"
    /\ resolved # {}
    /\ currentTrans # NoTrans
    /\ liveTimers = {<<currentTrans, step, retries>>}
    /\ retries >= 1

\* C11: while the engine stays running, the transaction in flight eventually
\* resolves (if no reply comes, through the expiries of its timer), and every
\* transaction waiting in the queue eventually has run() invoked.
C11_QueueProgress ==
    \A t \in TransIds :
        /\ (currentTrans = t /\ t \notin resolved) ~> (t \in resolved)
        /\ (running /\ t \in Range(transactionQueue)) ~>
               (t \in Range(runOrder) \/ ~running)

\* Kinds of the transactions read() spawns for the three poll markers.
PollKinds == {"PollResponse", "SetClock", "EepromAddress"}

\* C12: a transaction spawned for a poll marker has run() invoked before any
\* host-submitted transaction not yet started when the marker arrived: no
\* step invokes run() on a host-submitted transaction while a poll-driven
\* one is waiting in the queue.
C12_PollBeforeOtherTraffic ==
    [][ (runOrder' # runOrder /\ kind'[currentTrans'] \notin PollKinds) =>
            \A i \in 1..Len(transactionQueue') :
                kind'[transactionQueue'[i]] \notin PollKinds
      ]_vars

\* C13: whenever a transaction is in the current slot, the channel the engine
\* holds has not signalled close: none remains in the slot after the close
\* signal of the channel.
C13_CurrentSlotInvariant ==
    currentTrans # NoTrans =>
        (serial # NoPort /\ ports[serial] \in {"open", "closing"})

\* The slots after on(e, c) succeeded.
Registered(e, c) == [events EXCEPT ![e] = c]

\* C14: on(event, callBack) raises the invalid-event error for an unknown
\* event name and the invalid-callback error for a non-function, leaving
\* every slot as it was; otherwise it replaces exactly the named slot and
\* raises nothing. No other step changes a slot, and every callback invoked
\* is the one its slot holds, the last one registered for the event.
C14_ListenerRegistration ==
    [][ /\ fx'.on # <<>> =>
              LET e == fx'.on[1]
                  c == fx'.on[2]
              IN  IF e \notin EventNames
                  THEN fx'.threw = "Invalid event" /\ events' = events
                  ELSE IF c \notin Callbacks
                  THEN fx'.threw = "Expected function" /\ events' = events
                  ELSE fx'.threw = "none" /\ events' = Registered(e, c)
        /\ fx'.on = <<>> => events' = events
        /\ \A i \in 1..Len(fx'.called) :
              /\ fx'.called[i][1] \in EventNames
              /\ fx'.called[i][2] = events[fx'.called[i][1]]
              /\ fx'.called[i][2] \in Callbacks
      ]_vars

\* C14 witness: with f1 registered for the unit-status and close events and
\* f2 for the status event, a status request has completed and f2, and
\* nothing else, has just been invoked.
C14_Witness ==
    /\ fx.called = << <<"status", "f2">> >>
    /\ events["unitStatus"] = "f1"
    /\ events["close"] = "f1"

\* C15: start() on a running engine opens no port and changes nothing;
\* on an engine that is not running it opens one new port, makes it the
\* engine's channel and sets running; either way it returns the resulting
\* value of running, which is true.
C15_StartIdempotent ==
    [][ fx'.ret # <<>> =>
          /\ fx'.ret = <<running'>>
          /\ running'
          /\ UNCHANGED <<currentTrans, transactionQueue, timer, events,
                         liveTimers, kind, step, retries, pendingThen, runOrder>>
          /\ IF running
             THEN UNCHANGED <<serial, ports>>
             ELSE /\ serial' \in PortIds
                  /\ ports[serial'] = "unopened"
                  /\ ports' = [ports EXCEPT ![serial'] = "open"]
      ]_vars

\* C15 witness: start() has just returned true on an engine that was already
\* running with a transaction in flight and another queued: the one port ever
\* opened is still the only one.
C15_Witness ==
    /\ fx.ret = <<TRUE>>
    /\ currentTrans # NoTrans
    /\ transactionQueue # <<>>
    /\ ports = [p \in PortIds |-> IF p = 1 THEN "open" ELSE "unopened"]

\* C16: a transaction submitted to (and queued on) one controller is never
\* dequeued and started by the other: run() is invoked on a transaction only
\* by the controller it was submitted to.
C16_InstanceIsolation ==
    \A t \in TransIds : startedBy[t] \in {0, submittedTo[t]}

\* Ports opened by start() that have not signalled close.
OpenPorts == {p \in PortIds : ports[p] \in {"open", "closing"}}

\* C17: at most one port is opened and not yet closed.
C17_SingleOpenChannel == Cardinality(OpenPorts) <= 1

\* C18: serial.close() is invoked only on a port that start() opened and
\* that has neither closed nor been asked to close.
C18_CloseOnlyOpenChannel == fx.closeOn \in {"none", "open"}

\* C19: the event that follows a stop() called with nothing in flight (the
\* handler before it asked the open port to close while the engine was
\* running and idle) invokes run() on no transaction.
C19_NoStartAfterIdleStop ==
    [][ (fx.closeOn = "open" /\ running /\ currentTrans = NoTrans) =>
            runOrder' = runOrder
      ]_vars

\* C20: between events, a running engine with an empty current slot has an
\* empty queue.
C20_WorkConservingQueue ==
    (running /\ currentTrans = NoTrans /\ pendingThen = "none") =>
        transactionQueue = <<>>

TypeOK ==
    /\ running \in BOOLEAN
    /\ currentTrans \in TransIds \cup {NoTrans}
    /\ Range(transactionQueue) \subseteq TransIds
    /\ serial \in PortIds \cup {NoPort}
    /\ pendingThen \in {"none", "fulfilled", "rejected"}

====
